---- MODULE Spec2Model ----
\* Book CRUD service of src/Exercicio_Livro/index.js: an Express router over one
\* Mongoose model. Each handler is modelled up to its first await (or its
\* synchronous response) as one action and each store operation it awaits as
\* a second action, so that requests interleave exactly at the handlers'
\* suspension points.
EXTENDS Integers, Sequences, FiniteSets, TLC

\* ------------------------------------------------------------------ bounds
\* Requests received in one run.
MaxReq == 3
\* Documents constructed by `new Book(...)` in one run.
MaxBooks == 2
\* Store operations awaited at the same time.
MaxInflight == 2
\* Readings of the millisecond clock (Date.now()) after the first.
MaxTime == 1
\* Largest number whose decimal notation Number(string) recognises here.
MaxNum == 12

\* ------------------------------------------------------- program constants
DefaultPage == 1
DefaultLimit == 20
MinLimit == 1
MaxLimit == 100
ExitFailure == 1

\* ------------------------------------------------------------- JSON values
\* A JavaScript value of a request body or a stored document: its type tag
\* and its payload. "undefined" is a key that the body does not carry.
Undef == [t |-> "undefined", s |-> "", n |-> 0]
Null == [t |-> "null", s |-> "", n |-> 0]
NaN == [t |-> "NaN", s |-> "", n |-> 0]
CastError == [t |-> "CastError", s |-> "", n |-> 0]
Str(x) == [t |-> "string", s |-> x, n |-> 0]
Num(x) == [t |-> "number", s |-> "", n |-> x]

\* !v
Falsy(v) ==
    \/ v.t \in {"undefined", "null", "NaN"}
    \/ v.t = "string" /\ v.s = ""
    \/ v.t = "number" /\ v.n = 0

\* v == null
IsNullish(v) == v.t \in {"undefined", "null"}

Digits == <<"0", "1", "2", "3", "4", "5", "6", "7", "8", "9">>

\* Number.prototype.toString for integers.
RECURSIVE NumToStr(_)
NumToStr(n) ==
    IF n < 0 THEN "-" \o NumToStr(0 - n)
    ELSE IF n < 10 THEN Digits[n + 1]
    ELSE NumToStr(n \div 10) \o Digits[(n % 10) + 1]

\* Number(s) for a string: the number a decimal notation denotes, NaN for
\* any other text ("" is handled by the caller).
StrToNum(s) ==
    IF \E k \in 0..MaxNum : NumToStr(k) = s
    THEN Num(CHOOSE k \in 0..MaxNum : NumToStr(k) = s)
    ELSE NaN

\* ------------------------------------------------------------ bookSchema
TextFields == {"titulo", "autor", "editora"}
NumberFields == {"ano", "preco"}
Fields == TextFields \cup NumberFields
DocKeys == Fields \cup {"_id", "createdAt", "updatedAt"}

\* Mongoose's String cast.
castString(v) ==
    IF IsNullish(v) THEN v
    ELSE IF v.t = "number" THEN Str(NumToStr(v.n))
    ELSE v

\* Mongoose's Number cast.
castNumber(v) ==
    IF IsNullish(v) THEN v
    ELSE IF v.t = "string" /\ v.s = "" THEN Null
    ELSE IF v.t = "string"
         THEN (IF StrToNum(v.s) = NaN THEN CastError ELSE StrToNum(v.s))
    ELSE v

cast(f, v) == IF f \in TextFields THEN castString(v) ELSE castNumber(v)

\* Faulty variant of the validator: nothing is required.
checkRequiredNone(f, v) == TRUE

\* The `required: true` validator of a path, on a cast value.
checkRequired(f, v) ==
    IF f \in TextFields THEN v.t = "string" /\ v.s # "" ELSE v.t = "number"

\* A request body: every field of the schema, Undef where the key is absent.
EmptyBody == [f \in Fields |-> Undef]

castBody(b) == [f \in Fields |-> cast(f, b[f])]

\* Document validation run by save(): every path casts and is present.
validateSync(b) ==
    \A f \in Fields : castBody(b)[f] # CastError /\ checkRequired(f, castBody(b)[f])

\* Update validators (runValidators) on the paths of $set only.
validateUpdate(b) ==
    \A f \in Fields :
        b[f] # Undef => (castBody(b)[f] # CastError /\ checkRequired(f, castBody(b)[f]))

\* Faulty variant of the guard: preco is not looked at.
MissingRequiredNoPreco(b) ==
    \/ Falsy(b.titulo)
    \/ Falsy(b.autor)
    \/ Falsy(b.editora)
    \/ IsNullish(b.ano)

\* The guard of POST /books.
MissingRequired(b) ==
    \/ Falsy(b.titulo)
    \/ Falsy(b.autor)
    \/ Falsy(b.editora)
    \/ IsNullish(b.ano)
    \/ IsNullish(b.preco)

\* The `update` object of PUT /books/:id has no key.
NoUpdateKeys(b) == \A f \in Fields : b[f] = Undef

\* ---------------------------------------------------------- identifiers
\* The text of an :id route parameter is abstracted to an integer: a positive
\* one stands for a text that Mongoose accepts as an ObjectId (24 hexadecimal
\* digits), any other for a text that it does not ("abc").
MalformedIds == {0}
ObjectIds == 1..(MaxBooks + 1)
RouteIds == MalformedIds \cup ObjectIds
\* The identifier of the first document constructed.
FirstIds == {1}

\* Faulty variant of the check: every text passes.
isValidObjectIdAny(id) == TRUE

\* mongoose.isValidObjectId(id)
isValidObjectId(id) == id > 0

\* The cast of a query filter's _id to ObjectId (fails with a CastError).
castObjectId(id) == id > 0

\* Faulty variant of the generator: the same ObjectId every time.
NewObjectIdReused(n) == 1

\* The ObjectId the driver generates for the n-th document constructed.
NewObjectId(n) == n

\* -------------------------------------------------------- query parameters
\* req.query.page / req.query.limit: absent, or the characters of the text.
QAbsent == [present |-> FALSE, chars |-> <<>>]
QText(cs) == [present |-> TRUE, chars |-> cs]

IsDigit(c) == \E i \in 1..10 : Digits[i] = c
DigitVal(c) == (CHOOSE i \in 1..10 : Digits[i] = c) - 1

RECURSIVE ParseDigits(_, _)
ParseDigits(cs, acc) ==
    IF cs = <<>> \/ ~IsDigit(Head(cs)) THEN acc
    ELSE ParseDigits(Tail(cs), acc * 10 + DigitVal(Head(cs)))

\* parseInt(q): an optional sign and the longest prefix of digits; NaN when
\* there is no digit to read (parseInt(undefined) included).
parseInt(q) ==
    IF ~q.present \/ q.chars = <<>> THEN NaN
    ELSE IF Head(q.chars) = "-"
         THEN (IF Len(q.chars) > 1 /\ IsDigit(q.chars[2])
               THEN Num(0 - ParseDigits(Tail(q.chars), 0)) ELSE NaN)
    ELSE IF IsDigit(Head(q.chars)) THEN Num(ParseDigits(q.chars, 0))
    ELSE NaN

\* x || d
OrElse(x, d) == IF Falsy(x) THEN d ELSE x.n

MathMax(a, b) == IF a >= b THEN a ELSE b
MathMin(a, b) == IF a <= b THEN a ELSE b

\* const page = Math.max(1, parseInt(req.query.page) || 1)
PageOf(q) == MathMax(DefaultPage, OrElse(parseInt(q), DefaultPage))

\* const limit = Math.max(1, Math.min(100, parseInt(req.query.limit) || 20))
LimitOf(q) == MathMax(MinLimit, MathMin(MaxLimit, OrElse(parseInt(q), DefaultLimit)))

\* const skip = (page - 1) * limit
SkipOf(page, limit) == (page - 1) * limit

\* ------------------------------------------------------- store operations
\* Every order of the collection that sort({ createdAt: -1 }) may return:
\* documents of equal createdAt come in an order the store chooses.
SortedByCreatedAtDesc(coll) ==
    {s \in [1..Cardinality(coll) -> coll] :
        /\ \A i, j \in 1..Cardinality(coll) : i # j => s[i] # s[j]
        /\ \A i, j \in 1..Cardinality(coll) : i < j => s[i].createdAt >= s[j].createdAt}

\* Faulty variant of skip: nothing is skipped.
skipNone(seq, k) == seq

\* cursor.skip(k)
skip(seq, k) == IF k >= Len(seq) THEN <<>> ELSE SubSeq(seq, k + 1, Len(seq))

\* cursor.limit(k)
limit(seq, k) == IF k >= Len(seq) THEN seq ELSE SubSeq(seq, 1, k)

\* Book.find().skip(skip).limit(limit).sort({ createdAt: -1 }): the results
\* the store may return.
find(coll, sk, lim) == {limit(skip(s, sk), lim) : s \in SortedByCreatedAtDesc(coll)}

\* Book.countDocuments()
countDocuments(coll) == Cardinality(coll)

\* Book.findById(id): the matching documents (none or one).
findById(coll, id) == {r \in coll : r._id = id}

\* new Book({...}) at save(): cast fields, generated _id, both timestamps.
NewBook(id, b, at) ==
    [k \in DocKeys |->
        IF k = "_id" THEN id
        ELSE IF k \in {"createdAt", "updatedAt"} THEN at
        ELSE castBody(b)[k]]

\* Faulty variant of the update: a replacement, which drops the fields that
\* the body does not supply.
ApplySetReplace(r, set, at) ==
    [k \in DocKeys |->
        IF k \in Fields THEN (IF set[k] # Undef THEN set[k] ELSE Null)
        ELSE IF k = "updatedAt" THEN at
        ELSE r[k]]

\* { $set: update } with the updatedAt that the timestamps option adds.
ApplySet(r, set, at) ==
    [k \in DocKeys |->
        IF k \in Fields /\ set[k] # Undef THEN set[k]
        ELSE IF k = "updatedAt" THEN at
        ELSE r[k]]

\* Faulty variant of the update: with upsert, a record is made when none
\* matches.
findByIdAndUpdateUpsert(coll, id, set, at) ==
    IF \E r \in coll : r._id = id
    THEN {IF r._id = id THEN [k \in DocKeys |->
                                 IF k \in Fields /\ set[k] # Undef THEN set[k]
                                 ELSE IF k = "updatedAt" THEN at
                                 ELSE r[k]]
          ELSE r : r \in coll}
    ELSE coll \cup {[k \in DocKeys |->
                       IF k = "_id" THEN id
                       ELSE IF k \in {"createdAt", "updatedAt"} THEN at
                       ELSE set[k]]}

\* The collection after findByIdAndUpdate(id, { $set }, { new: true }); no
\* upsert: a collection without the record is left as it is.
findByIdAndUpdate(coll, id, set, at) ==
    {IF r._id = id THEN ApplySet(r, set, at) ELSE r : r \in coll}

\* Faulty variant of the delete: the record stays.
findByIdAndDeleteNone(coll, id) == coll

\* The collection after findByIdAndDelete(id).
findByIdAndDelete(coll, id) == {r \in coll : r._id # id}

\* The collection after save() inserts a document.
insertOne(coll, doc) == coll \cup {doc}

\* ------------------------------------------------------------ request inputs
\* The payload of the specification's scenario.
BaseBody ==
    [titulo |-> Str("A"), autor |-> Str("B"), editora |-> Str("C"),
     ano |-> Num(2020), preco |-> Num(9)]

\* Values a request gives a text field: absent, null, empty, a text, a number.
TextValues == {Undef, Null, Str(""), Str("Z"), Num(7)}
\* Values a request gives a number field: absent, null, numbers, and texts
\* that the cast reads as null, as a number, or not at all.
NumberValues == {Undef, Null, Num(0), Str(""), Str("12"), Str("abc")}
ValuesOf(f) == IF f \in TextFields THEN TextValues ELSE NumberValues

\* Bodies of POST /books: the scenario's payload, and it with one field
\* replaced or removed.
CreateBodies ==
    {BaseBody} \cup UNION {{[BaseBody EXCEPT ![f] = v] : v \in ValuesOf(f)} : f \in Fields}

\* Bodies of PUT /books/:id: no field, or one field.
UpdateBodies ==
    {EmptyBody}
    \cup UNION {{[EmptyBody EXCEPT ![f] = v] : v \in ValuesOf(f) \ {Undef}} : f \in Fields}

\* The requests of the life of a record: few bodies, every identifier.
LifeCreateBodies == {BaseBody, [BaseBody EXCEPT !.titulo = Undef]}
LifeUpdateBodies ==
    {EmptyBody,
     [EmptyBody EXCEPT !.titulo = Str("Z")],
     [EmptyBody EXCEPT !.preco = Str("12")],
     [EmptyBody EXCEPT !.titulo = Str("Y"), !.preco = Num(12)],
     [EmptyBody EXCEPT !.titulo = Null]}

\* ?page= and ?limit= of GET /books.
PageQueries ==
    {QAbsent, QText(<<"0">>), QText(<<"2">>), QText(<<"3">>), QText(<<"-", "1">>)}
LimitQueries ==
    {QAbsent, QText(<<"0">>), QText(<<"1", "0", "0", "0">>), QText(<<"-", "5">>)}
ListQueries ==
    (PageQueries \X {QText(<<"1">>)})
    \cup ({QAbsent} \X LimitQueries)
    \cup {<<QText(<<"2">>), QText(<<"2">>)>>}

\* --------------------------------------------------------------------- state
VARIABLES
    proc,        \* "running" | "exited": the Node process
    exitCode,    \* the code given to process.exit
    conn,        \* "connecting" | "connected": mongoose.connect's promise
    now,         \* Date.now()
    books,       \* the Book collection of the store
    nextId,      \* number of the next ObjectId the driver generates
    inflight,    \* store operations awaited by handlers
    nReq,        \* requests received
    nResp,       \* responses sent
    resp,        \* the last response sent
    createdIds,  \* history: identifiers returned by a 201
    deletedIds   \* history: identifiers whose Delete answered 200

vars ==
    <<proc, exitCode, conn, now, books, nextId, inflight, nReq, nResp, resp,
      createdIds, deletedIds>>

\* An awaited store operation; `at` is the clock reading that an insert or
\* an update carries (0 for the others, which read no clock). `seen` is
\* history: the fields that other Updates wrote to the same record while
\* this operation was awaited.
Pending(op, id, req, set, docs, at) ==
    [op |-> op, id |-> id, req |-> req, set |-> set, docs |-> docs,
     at |-> at, seen |-> EmptyBody, query |-> <<QAbsent, QAbsent>>, page |-> 0,
     limit |-> 0, findDone |-> FALSE, countDone |-> FALSE, items |-> <<>>, total |-> 0]

\* res.status(status).json(...)
Response(op, status, id, req, docs) ==
    [op |-> op, status |-> status, id |-> id, req |-> req, docs |-> docs,
     at |-> 0, seen |-> EmptyBody, query |-> <<QAbsent, QAbsent>>, page |-> 0,
     limit |-> 0, items |-> <<>>, total |-> 0]

Init ==
    /\ proc = "running"
    /\ exitCode = 0
    /\ conn = "connecting"
    /\ now = 0
    /\ books = {}
    /\ nextId = 1
    /\ inflight = {}
    /\ nReq = 0
    /\ nResp = 0
    /\ resp = Response("none", 0, 0, EmptyBody, {})
    /\ createdIds = {}
    /\ deletedIds = {}

\* app.listen is called as the module loads: requests are received from the
\* start, whatever the state of the connection.
Receive ==
    /\ proc = "running"
    /\ nReq < MaxReq
    /\ nReq' = nReq + 1

Send(r) ==
    /\ resp' = r
    /\ nResp' = nResp + 1

\* The :id of a request: a text that is no identifier, an identifier that a
\* 201 of this run returned, or one that this run never assigns. A client
\* does not know the identifier of a record before its Create is answered.
Addressable == MalformedIds \cup createdIds \cup {id \in ObjectIds : id > MaxBooks}

Await(e) ==
    /\ Cardinality(inflight) < MaxInflight
    /\ e \notin inflight
    /\ inflight' = inflight \cup {e}
    /\ UNCHANGED <<resp, nResp>>

\* mongoose.connect(uri).then(...)
Connect ==
    /\ proc = "running"
    /\ conn = "connecting"
    /\ conn' = "connected"
    /\ UNCHANGED <<proc, exitCode, now, books, nextId, inflight, nReq, nResp, resp,
                   createdIds, deletedIds>>

\* mongoose.connect(uri).catch(err => process.exit(1))
ConnectFail ==
    /\ proc = "running"
    /\ conn = "connecting"
    /\ proc' = "exited"
    /\ exitCode' = ExitFailure
    /\ UNCHANGED <<conn, now, books, nextId, inflight, nReq, nResp, resp,
                   createdIds, deletedIds>>

\* The millisecond clock advances.
Tick ==
    /\ proc = "running"
    /\ now < MaxTime
    /\ now' = now + 1
    /\ UNCHANGED <<proc, exitCode, conn, books, nextId, inflight, nReq, nResp, resp,
                   createdIds, deletedIds>>

\* GET /
Health ==
    /\ Receive
    /\ Send(Response("health", 200, 0, EmptyBody, {}))
    /\ UNCHANGED <<proc, exitCode, conn, now, books, nextId, inflight,
                   createdIds, deletedIds>>

\* app.use((req, res) => res.status(404)...)
UnknownRoute ==
    /\ Receive
    /\ Send(Response("unknown", 404, 0, EmptyBody, {}))
    /\ UNCHANGED <<proc, exitCode, conn, now, books, nextId, inflight,
                   createdIds, deletedIds>>

\* POST /books, up to `await newBook.save()`: the 400 of the guard, the
\* rejection of save() by document validation (500), or the insert issued.
PostBooks(bodies) ==
    \E b \in bodies :
        /\ Receive
        /\ IF MissingRequired(b)
           THEN /\ Send(Response("create", 400, 0, b, {}))
                /\ UNCHANGED <<nextId, inflight>>
           ELSE /\ nextId <= MaxBooks
                /\ nextId' = nextId + 1
                /\ IF ~validateSync(b)
                   THEN /\ Send(Response("create", 500, 0, b, {}))
                        /\ UNCHANGED inflight
                   ELSE Await(Pending("insert", NewObjectId(nextId), b, EmptyBody,
                                      {NewBook(NewObjectId(nextId), b, now)}, now))
        /\ UNCHANGED <<proc, exitCode, conn, now, books, createdIds, deletedIds>>

\* The insert of save() at the store, and the handler's 201 (500 on a
\* duplicate _id).
SaveApply ==
    \E e \in inflight :
        /\ proc = "running"
        /\ conn = "connected"
        /\ e.op = "insert"
        /\ inflight' = inflight \ {e}
        /\ IF findById(books, e.id) # {}
           THEN /\ Send(Response("create", 500, 0, e.req, {}))
                /\ UNCHANGED <<books, createdIds>>
           ELSE /\ books' = UNION {insertOne(books, d) : d \in e.docs}
                /\ createdIds' = createdIds \cup {e.id}
                /\ Send(Response("create", 201, e.id, e.req, e.docs))
        /\ UNCHANGED <<proc, exitCode, conn, now, nextId, nReq, deletedIds>>

\* GET /books, up to `await Promise.all([find, countDocuments])`: both store
\* operations are issued; this handler has no 400.
GetBooks(queries) ==
    \E q \in queries :
        /\ Receive
        /\ Await([Pending("list", 0, EmptyBody, EmptyBody, {}, 0)
                    EXCEPT !.query = q, !.page = PageOf(q[1]), !.limit = LimitOf(q[2])])
        /\ UNCHANGED <<proc, exitCode, conn, now, books, nextId, createdIds, deletedIds>>

\* res.json({ page, limit, total, items }) once both operations have answered.
ListDone(o, e) ==
    IF e.findDone /\ e.countDone
    THEN /\ inflight' = inflight \ {o}
         /\ Send([Response("list", 200, 0, EmptyBody, {})
                    EXCEPT !.query = e.query, !.page = e.page, !.limit = e.limit,
                           !.items = e.items, !.total = e.total])
    ELSE /\ e \notin inflight
         /\ inflight' = (inflight \ {o}) \cup {e}
         /\ UNCHANGED <<resp, nResp>>

\* Book.find().skip(skip).limit(limit).sort({ createdAt: -1 }) at the store.
ListFind ==
    \E e \in inflight :
        /\ proc = "running"
        /\ conn = "connected"
        /\ e.op = "list"
        /\ ~e.findDone
        /\ \E its \in find(books, SkipOf(e.page, e.limit), e.limit) :
               ListDone(e, [e EXCEPT !.findDone = TRUE, !.items = its])
        /\ UNCHANGED <<proc, exitCode, conn, now, books, nextId, nReq,
                       createdIds, deletedIds>>

\* Book.countDocuments() at the store.
ListCount ==
    \E e \in inflight :
        /\ proc = "running"
        /\ conn = "connected"
        /\ e.op = "list"
        /\ ~e.countDone
        /\ ListDone(e, [e EXCEPT !.countDone = TRUE, !.total = countDocuments(books)])
        /\ UNCHANGED <<proc, exitCode, conn, now, books, nextId, nReq,
                       createdIds, deletedIds>>

\* GET /books/:id, up to `await Book.findById(id)`.
GetBook(ids) ==
    \E id \in ids \cap Addressable :
        /\ Receive
        /\ IF ~isValidObjectId(id)
           THEN /\ Send(Response("get", 400, id, EmptyBody, {}))
                /\ UNCHANGED inflight
           ELSE Await(Pending("find", id, EmptyBody, EmptyBody, {}, 0))
        /\ UNCHANGED <<proc, exitCode, conn, now, books, nextId, createdIds, deletedIds>>

\* Book.findById(id) at the store, and the handler's 200 or 404 (500 when the
\* id does not cast).
FindApply ==
    \E e \in inflight :
        /\ proc = "running"
        /\ conn = "connected"
        /\ e.op = "find"
        /\ inflight' = inflight \ {e}
        /\ IF ~castObjectId(e.id)
           THEN Send(Response("get", 500, e.id, e.req, {}))
           ELSE IF findById(books, e.id) = {}
           THEN Send(Response("get", 404, e.id, e.req, {}))
           ELSE Send(Response("get", 200, e.id, e.req, findById(books, e.id)))
        /\ UNCHANGED <<proc, exitCode, conn, now, books, nextId, nReq,
                       createdIds, deletedIds>>

\* PUT /books/:id, up to `await Book.findByIdAndUpdate(...)`: the two 400s,
\* the rejection by the cast or the update validators (500), or the update
\* issued with the clock reading that the timestamps option puts in $set.
PutBook(ids, bodies) ==
    \E id \in ids \cap Addressable, b \in bodies :
        /\ Receive
        /\ IF ~isValidObjectId(id) \/ NoUpdateKeys(b)
           THEN /\ Send(Response("update", 400, id, b, {}))
                /\ UNCHANGED inflight
           ELSE IF ~castObjectId(id) \/ ~validateUpdate(b)
           THEN /\ Send(Response("update", 500, id, b, {}))
                /\ UNCHANGED inflight
           ELSE Await(Pending("update", id, b, castBody(b), {}, now))
        /\ UNCHANGED <<proc, exitCode, conn, now, books, nextId, createdIds, deletedIds>>

\* History: what the operations awaited on record `id` see written by `set`.
Overtake(pending, id, set) ==
    {IF f.id = id /\ f.op \in {"update", "delete"}
     THEN [f EXCEPT !.seen = [k \in Fields |-> IF set[k] # Undef THEN set[k] ELSE f.seen[k]]]
     ELSE f : f \in pending}

\* findByIdAndUpdate at the store, one atomic operation, and the handler's
\* 200 with the updated record, or 404 when the store returns none.
UpdateApply ==
    \E e \in inflight :
        /\ proc = "running"
        /\ conn = "connected"
        /\ e.op = "update"
        /\ books' = findByIdAndUpdate(books, e.id, e.set, e.at)
        /\ IF findById(books', e.id) = {}
           THEN /\ Send([Response("update", 404, e.id, e.req, {})
                           EXCEPT !.at = e.at, !.seen = e.seen])
                /\ inflight' = inflight \ {e}
           ELSE /\ Send([Response("update", 200, e.id, e.req, findById(books', e.id))
                           EXCEPT !.at = e.at, !.seen = e.seen])
                /\ inflight' = Overtake(inflight \ {e}, e.id, e.set)
        /\ UNCHANGED <<proc, exitCode, conn, now, nextId, nReq, createdIds, deletedIds>>

\* DELETE /books/:id, up to `await Book.findByIdAndDelete(id)`.
DeleteBook(ids) ==
    \E id \in ids \cap Addressable :
        /\ Receive
        /\ IF ~isValidObjectId(id)
           THEN /\ Send(Response("delete", 400, id, EmptyBody, {}))
                /\ UNCHANGED inflight
           ELSE Await(Pending("delete", id, EmptyBody, EmptyBody, {}, 0))
        /\ UNCHANGED <<proc, exitCode, conn, now, books, nextId, createdIds, deletedIds>>

\* findByIdAndDelete at the store, and the handler's 200 with the removed
\* record or 404.
DeleteApply ==
    \E e \in inflight :
        /\ proc = "running"
        /\ conn = "connected"
        /\ e.op = "delete"
        /\ inflight' = inflight \ {e}
        /\ IF ~castObjectId(e.id)
           THEN /\ Send(Response("delete", 500, e.id, e.req, {}))
                /\ UNCHANGED <<books, deletedIds>>
           ELSE IF findById(books, e.id) = {}
           THEN /\ Send([Response("delete", 404, e.id, e.req, {}) EXCEPT !.seen = e.seen])
                /\ UNCHANGED <<books, deletedIds>>
           ELSE /\ books' = findByIdAndDelete(books, e.id)
                /\ deletedIds' = deletedIds \cup {e.id}
                /\ Send([Response("delete", 200, e.id, e.req, findById(books, e.id))
                           EXCEPT !.seen = e.seen])
        /\ UNCHANGED <<proc, exitCode, conn, now, nextId, nReq, createdIds>>

\* The life of records under every interleaving of the handlers.
Next ==
    \/ Connect
    \/ ConnectFail
    \/ Tick
    \/ Health
    \/ UnknownRoute
    \/ PostBooks(LifeCreateBodies)
    \/ SaveApply
    \/ GetBook(RouteIds)
    \/ FindApply
    \/ PutBook(RouteIds, LifeUpdateBodies)
    \/ UpdateApply
    \/ DeleteBook(RouteIds)
    \/ DeleteApply

Spec == Init /\ [][Next]_vars

\* Validation: every body of POST and PUT, on the first record.
NextValidate ==
    \/ Connect
    \/ PostBooks(CreateBodies)
    \/ SaveApply
    \/ PutBook(FirstIds, UpdateBodies)
    \/ UpdateApply
    \/ DeleteBook(FirstIds)
    \/ DeleteApply

SpecValidate == Init /\ [][NextValidate]_vars

\* Listing: every query, over collections that Creates and Deletes change.
NextList ==
    \/ Connect
    \/ Tick
    \/ PostBooks({BaseBody})
    \/ SaveApply
    \/ DeleteBook(FirstIds)
    \/ DeleteApply
    \/ GetBooks(ListQueries)
    \/ ListFind
    \/ ListCount

SpecList == Init /\ [][NextList]_vars

\* =================================================================== claims
\* The step sends a response.
Responded == nResp' = nResp + 1

\* The body carries the key.
Supplied(b, f) == b[f] # Undef

\* The value has the type that the schema gives the field, and is not empty.
WellTyped(f, v) ==
    IF f \in TextFields THEN v.t = "string" /\ v.s # "" ELSE v.t = "number"

\* A body of Update with at least one field, every supplied field well typed.
ValidUpdateBody(b) ==
    /\ \E f \in Fields : Supplied(b, f)
    /\ \A f \in Fields : Supplied(b, f) => WellTyped(f, b[f])

\* The stored record of an identifier, in a collection that holds one.
RecordOf(coll, id) == CHOOSE r \in coll : r._id = id
Holds(coll, id) == \E r \in coll : r._id = id

\* ------------------------------------------------------------------- C1
\* C1: a Create whose body lacks one of the five fields, or gives it null, is
\* answered 400, and the step stores nothing and issues no insert.
C1_CreateMissingField ==
    [][(Responded /\ resp'.op = "create"
          /\ \E f \in Fields : resp'.req[f] \in {Undef, Null})
        => (resp'.status = 400 /\ books' = books /\ inflight' = inflight)]_vars

\* A Create without a field was answered 400 while the collection held a record.
C1_Witness ==
    /\ resp.op = "create"
    /\ resp.status = 400
    /\ \E f \in Fields : resp.req[f] \in {Undef, Null}
    /\ books # {}

\* ------------------------------------------------------------------- C2
\* What a successful Create does: 201, the five fields as given, a well-formed
\* identifier that no earlier Create returned, and exactly one record added.
CreatedAsGiven ==
    /\ resp'.status = 201
    /\ \E d \in resp'.docs :
        /\ resp'.docs = {d}
        /\ \A f \in Fields : d[f] = resp'.req[f]
        /\ d._id = resp'.id
        /\ d._id \in ObjectIds
        /\ d._id \notin createdIds
        /\ ~Holds(books, d._id)
        /\ books' = books \cup {d}
        /\ Cardinality(books') = Cardinality(books) + 1

\* C2 as stated: every Create whose five fields are present and non-null is
\* answered 201 with the fields as given and a fresh identifier.
C2_Original ==
    [][(Responded /\ resp'.op = "create"
          /\ \A f \in Fields : resp'.req[f] \notin {Undef, Null})
        => CreatedAsGiven]_vars

\* C2 amended: every Create whose text fields are non-empty texts and whose
\* ano and preco are numbers is answered 201 with the five fields as given,
\* an identifier different from that of every other Create of the run, and
\* exactly one record added.
C2_CreateValid ==
    [][(Responded /\ resp'.op = "create"
          /\ \A f \in Fields : WellTyped(f, resp'.req[f]))
        => CreatedAsGiven]_vars

\* A Create was answered 201 after a record of the run had been deleted.
C2_Witness ==
    /\ resp.op = "create"
    /\ resp.status = 201
    /\ deletedIds # {}
    /\ \A f \in Fields : WellTyped(f, resp.req[f])

\* ------------------------------------------------------------------- C3
\* C3: GetById, Update and Delete with a malformed identifier are answered
\* 400 and no store operation is ever issued for one; with a well-formed
\* identifier that no record has, GetById, Delete and an Update with a valid
\* body are answered 404 and change nothing; GetById of an assigned
\* identifier answers 200 with the stored record.
C3_IdentifierResolution ==
    [][/\ \A e \in inflight' : e.op \in {"find", "update", "delete"} => e.id \in ObjectIds
       /\ (Responded /\ resp'.op \in {"get", "update", "delete"})
           => /\ resp'.id \in MalformedIds
                  => (resp'.status = 400 /\ books' = books /\ inflight' = inflight)
              /\ (/\ resp'.id \in ObjectIds
                  /\ ~Holds(books, resp'.id)
                  /\ (resp'.op = "update" => ValidUpdateBody(resp'.req)))
                  => (resp'.status = 404 /\ books' = books)
              /\ (resp'.op = "get" /\ Holds(books, resp'.id))
                  => /\ resp'.status = 200
                     /\ resp'.docs = {RecordOf(books, resp'.id)}
                     /\ books' = books]_vars

\* An Update with a valid body and a well-formed identifier that no record
\* has was answered 404 while the collection held a record.
C3_Witness ==
    /\ resp.op = "update"
    /\ resp.status = 404
    /\ resp.id \in ObjectIds
    /\ ValidUpdateBody(resp.req)
    /\ books # {}

\* ------------------------------------------------------------------- C4
\* An Update with no field, on an existing record: 400 and nothing changes.
UpdateEmptyRejected ==
    (Responded /\ resp'.op = "update" /\ Holds(books, resp'.id)
       /\ \A f \in Fields : ~Supplied(resp'.req, f))
    => (resp'.status = 400 /\ books' = books /\ inflight' = inflight)

\* An Update with a valid body, on an existing record: 200 with the record
\* after the update, in which the supplied fields have the given values and
\* every other field, the identifier and the creation timestamp are as
\* before; every other record is as before.
UpdateSetsSupplied ==
    (Responded /\ resp'.op = "update" /\ Holds(books, resp'.id)
       /\ ValidUpdateBody(resp'.req))
    => /\ resp'.status = 200
       /\ \E d \in resp'.docs :
           /\ resp'.docs = {d}
           /\ books' = (books \ {RecordOf(books, resp'.id)}) \cup {d}
           /\ \A f \in Fields :
                d[f] = IF Supplied(resp'.req, f) THEN resp'.req[f]
                       ELSE RecordOf(books, resp'.id)[f]
           /\ d._id = resp'.id
           /\ d.createdAt = RecordOf(books, resp'.id).createdAt

\* The last-modified timestamp advances with an Update answered 200: in the
\* weakest reading, it is never earlier than the one before.
UpdatedAtAdvances ==
    (Responded /\ resp'.op = "update" /\ resp'.status = 200)
    => \A d \in resp'.docs : d.updatedAt >= RecordOf(books, resp'.id).updatedAt

\* The last-modified timestamp after an Update answered 200 is the clock
\* reading of the handler when it issued the update.
UpdatedAtIsIssueTime ==
    (Responded /\ resp'.op = "update" /\ resp'.status = 200)
    => \A d \in resp'.docs : d.updatedAt = resp'.at /\ resp'.at <= now'

DeleteRemovesOne ==
    (Responded /\ resp'.op = "delete" /\ Holds(books, resp'.id))
    => /\ resp'.status = 200
       /\ resp'.docs = {RecordOf(books, resp'.id)}
       /\ books' = books \ {RecordOf(books, resp'.id)}

\* The identifier of a deleted record is never that of a stored record or of
\* a later Create.
DeletedNeverReassigned ==
    /\ \A r \in books' : r._id \notin deletedIds'
    /\ (Responded /\ resp'.op = "create" /\ resp'.status = 201)
       => resp'.id \notin deletedIds

\* C5 as stated: after the Delete, every GetById, Update or Delete of that
\* identifier is answered 404.
C5_Original ==
    [][/\ DeleteRemovesOne
       /\ DeletedNeverReassigned
       /\ (Responded /\ resp'.op \in {"get", "update", "delete"}
             /\ resp'.id \in deletedIds)
          => resp'.status = 404]_vars

\* C5 amended: after the Delete, every GetById or Delete of that identifier,
\* and every Update of it with a valid body, is answered 404.
C5_DeleteIsFinal ==
    [][/\ DeleteRemovesOne
       /\ DeletedNeverReassigned
       /\ (Responded /\ resp'.op \in {"get", "update", "delete"}
             /\ resp'.id \in deletedIds
             /\ (resp'.op = "update" => ValidUpdateBody(resp'.req)))
          => (resp'.status = 404 /\ books' = books)]_vars

\* A GetById of a deleted record was answered 404.
C5_Witness ==
    /\ resp.op = "get"
    /\ resp.status = 404
    /\ resp.id \in deletedIds

\* ------------------------------------------------------------------- C9
\* C9: every stored record has its five fields present and non-null, and an
\* Update that gives a field null is not answered 200 and changes nothing.
C9_RequiredFieldsKept ==
    [][/\ \A r \in books' : \A f \in Fields : r[f] \notin {Undef, Null}
       /\ (Responded /\ resp'.op = "update"
             /\ \E f \in Fields : resp'.req[f] = Null)
          => (resp'.status # 200 /\ books' = books)]_vars

\* An Update that gave a field null was refused while its record was stored.
C9_Witness ==
    /\ resp.op = "update"
    /\ resp.status = 500
    /\ \E f \in Fields : resp.req[f] = Null
    /\ Holds(books, resp.id)

\* ------------------------------------------------------------------ C10
\* C10: an Update is applied to the record as the store holds it then: the
\* fields it supplies take its values, the fields that an Update applied
\* while it was awaited wrote and it does not supply keep those values, and
\* the others are unchanged; an Update that finds no record answers 404 and
\* makes none; a Delete echoes the record with the writes of the Updates
\* applied while it was awaited.
C10_AtomicUpdates ==
    [][/\ (Responded /\ resp'.op = "update" /\ resp'.status \notin {400, 500}
             /\ Holds(books, resp'.id))
          => /\ resp'.status = 200
             /\ resp'.docs = {RecordOf(books', resp'.id)}
             /\ \A f \in Fields :
                  RecordOf(books', resp'.id)[f] =
                    IF Supplied(resp'.req, f) THEN cast(f, resp'.req[f])
                    ELSE IF Supplied(resp'.seen, f) THEN resp'.seen[f]
                    ELSE RecordOf(books, resp'.id)[f]
       /\ (Responded /\ resp'.op = "update" /\ resp'.status \notin {400, 500}
             /\ ~Holds(books, resp'.id))
          => (resp'.status = 404 /\ books' = books)
       /\ (Responded /\ resp'.op = "delete" /\ resp'.status = 200)
          => \A d \in resp'.docs : \A f \in Fields :
                Supplied(resp'.seen, f) => d[f] = resp'.seen[f]
       /\ \A r \in books' : r._id \notin deletedIds']_vars

\* An Update was answered 200 after another Update, applied while it was
\* awaited, wrote a field that it does not supply.
C10_Witness ==
    /\ resp.op = "update"
    /\ resp.status = 200
    /\ \E f \in Fields : Supplied(resp.seen, f) /\ ~Supplied(resp.req, f)
    /\ \E f \in Fields : Supplied(resp.req, f)

\* ------------------------------------------------------------------- C6
\* `its` is the page of `coll` ordered by creation timestamp descending: at
\* most `lim` records, those of the positions after the first (pg-1)*lim.
IsPageOf(coll, pg, lim, its) ==
    /\ Len(its) = MathMax(0, MathMin(lim, Cardinality(coll) - (pg - 1) * lim))
    /\ Len(its) <= lim
    /\ \A i \in 1..Len(its) :
        /\ its[i] \in coll
        /\ Cardinality({r \in coll : r.createdAt > its[i].createdAt}) <= (pg - 1) * lim + i - 1
        /\ Cardinality({r \in coll : r.createdAt >= its[i].createdAt}) >= (pg - 1) * lim + i
    /\ \A i, j \in 1..Len(its) : i < j => its[i] # its[j]

\* The number of records created and not deleted.
LiveCount == Cardinality(createdIds \ deletedIds)

\* C6: the find of a List returns the page of the collection at positions
\* (page-1)*limit .. (page-1)*limit+limit-1 in descending order of creation
\* timestamp, with page >= 1 and 1 <= limit <= 100; its count returns the
\* number of Books of the whole collection; neither modifies anything.
C6_ListPage ==
    [][\A e \in inflight : e.op = "list" =>
         /\ e.page >= 1 /\ e.limit >= 1 /\ e.limit <= 100
         /\ \A f \in inflight' \ inflight :
              (f.op = "list" /\ f.query = e.query)
              => /\ books' = books
                 /\ (~e.findDone /\ f.findDone)
                    => IsPageOf(books, e.page, e.limit, f.items)
                 /\ (~e.countDone /\ f.countDone)
                    => (f.total = LiveCount /\ f.total = Cardinality(books))
         /\ (Responded /\ resp'.op = "list" /\ resp'.query = e.query
               /\ e \notin inflight')
            => /\ books' = books
               /\ resp'.status = 200
               /\ resp'.page = e.page /\ resp'.limit = e.limit
               /\ ~e.findDone => IsPageOf(books, e.page, e.limit, resp'.items)
               /\ ~e.countDone
                  => (resp'.total = LiveCount /\ resp'.total = Cardinality(books))
               /\ e.findDone => resp'.items = e.items
               /\ e.countDone => resp'.total = e.total]_vars

\* A List answered the second page, of one record, of a collection of two
\* records of different creation timestamps.
C6_Witness ==
    /\ resp.op = "list"
    /\ resp.page = 2
    /\ resp.limit = 1
    /\ resp.total = 2
    /\ Len(resp.items) = 1
    /\ \E r \in books : r.createdAt > resp.items[1].createdAt

\* ------------------------------------------------------------------- C7
\* The integer that the text of a query parameter denotes.
IsInteger(q) ==
    /\ q.present
    /\ q.chars # <<>>
    /\ \A i \in 1..Len(q.chars) : IsDigit(q.chars[i]) \/ (i = 1 /\ q.chars[i] = "-")
    /\ \E i \in 1..Len(q.chars) : IsDigit(q.chars[i])
IntegerOf(q) == parseInt(q).n

\* C7: List is never answered 400 and echoes the clamped parameters: limit
\* is min(100, max(1, limit)) for every integer limit and 20 when absent;
\* page is max(1, page) for every integer page and 1 when absent.
C7_ListClamps ==
    resp.op = "list" =>
        /\ resp.status = 200
        /\ IsInteger(resp.query[2])
           => resp.limit = MathMin(100, MathMax(1, IntegerOf(resp.query[2])))
        /\ ~resp.query[2].present => resp.limit = 20
        /\ IsInteger(resp.query[1]) => resp.page = MathMax(1, IntegerOf(resp.query[1]))
        /\ ~resp.query[1].present => resp.page = 1

\* ------------------------------------------------------------------- C8
\* C8: when the connection attempt fails the process exits with a non-zero
\* code, and in such a run no request has been answered.
C8_NoTrafficWithoutConnection ==
    proc = "exited" => (exitCode # 0 /\ conn # "connected" /\ nResp = 0)

====
